---- MODULE Spec2Model ----
(***************************************************************************)
(* RBAC authorization core of authsys: the permission store (rbac/models), *)
(* the post_save role hook (accounts/signals), the per-request scope       *)
(* resolver (rbac/middleware) and the scope gate (rbac/permissions).       *)
(*                                                                         *)
(* Strings that the code parses are sequences of tokens: a token is a code *)
(* word or the separator ":"; a resource or action code c is the one-token *)
(* string <<c>>.  Python lists whose order comes from an unordered query   *)
(* are bags (the order is unspecified and no code reads a position).       *)
(***************************************************************************)
EXTENDS Integers, FiniteSets, Sequences, Bags, TLC

VARIABLES users, roles, resources, actions, permissions, role_perms, user_roles,
          request, view, result, workers, duplicates, response, other

vars == <<users, roles, resources, actions, permissions, role_perms, user_roles,
          request, view, result, workers, duplicates, response, other>>

(* ---------------------------- bounds ---------------------------------- *)
MaxScopeLen == 3
MaxDup == 1
MaxMidWrites == 1
MaxClock == 1

(* ---------------------------- values ---------------------------------- *)
UserIds == {1, 2}
RoleNames == {"Default", "Admin"}
WorkerIds == {1, 2}
Sep == ":"

(* rbac/migrations/0002: the seeded catalogue *)
actions_to_create == {"create", "read", "update", "delete"}
resources_to_create == {"projects", "invoices", "users"}

(* inputs of the gate harness *)
GateResources == {"projects", "invoices"}
GateActions == {"read", "delete"}
Tokens == GateResources \cup GateActions \cup {Sep}

(* Python values that may be None or missing are tagged records:          *)
(*   a principal is [is_none, id, is_authenticated, is_staff,             *)
(*   is_superuser, scopes]; its scopes attribute is [attached, map];      *)
(*   a view's required_scope is [kind, s] with kind "missing" (no         *)
(*   attribute), "None" or "str".                                         *)
NoScopes == [attached |-> FALSE, map |-> <<>>]
Attached(m) == [attached |-> TRUE, map |-> m]
NoneUser == [is_none |-> TRUE, id |-> 0, is_authenticated |-> FALSE,
             is_staff |-> FALSE, is_superuser |-> FALSE, scopes |-> NoScopes]
AnonymousUser(sc) == [is_none |-> FALSE, id |-> 0, is_authenticated |-> FALSE,
                      is_staff |-> FALSE, is_superuser |-> FALSE, scopes |-> sc]
ScopeMissing == [kind |-> "missing", s |-> <<>>]
ScopeNone == [kind |-> "None", s |-> <<>>]
ScopeStr(s) == [kind |-> "str", s |-> s]

(* -------------------------- string helpers ---------------------------- *)
Str(code) == <<code>>

StringsUpTo(n) == UNION {[1..k -> Tokens] : k \in 0..n}

FirstSep(s) == CHOOSE i \in 1..Len(s) : s[i] = Sep /\ \A j \in 1..(i - 1) : s[j] # Sep

RECURSIVE split(_)
split(s) ==
    IF \A i \in 1..Len(s) : s[i] # Sep
    THEN <<s>>
    ELSE LET i == FirstSep(s)
         IN <<SubSeq(s, 1, i - 1)>> \o split(SubSeq(s, i + 1, Len(s)))

(* mutant: looks the action up under every resource *)
scopes_get_AnyResource(user_scopes, resource) ==
    IF DOMAIN user_scopes = {}
    THEN EmptyBag
    ELSE [a \in UNION {DOMAIN user_scopes[r] : r \in DOMAIN user_scopes} |-> 1]

(* dict.get(key, []) *)
scopes_get(user_scopes, resource) ==
    IF Len(resource) = 1 /\ resource[1] \in DOMAIN user_scopes
    THEN user_scopes[resource[1]]
    ELSE EmptyBag

(* action in list *)
InList(action, list) == Len(action) = 1 /\ BagIn(action[1], list)

(* ------------------------------ the gate ------------------------------ *)
Truthy(user) == ~user.is_none

(* mutant: only superusers bypass *)
ElevatedBypass_SuperuserOnly(user) ==
    /\ Truthy(user)
    /\ user.is_authenticated
    /\ user.is_superuser

(* mutant: the bypass forgets is_authenticated *)
ElevatedBypass_NoAuthCheck(user) ==
    /\ Truthy(user)
    /\ (user.is_staff \/ user.is_superuser)

ElevatedBypass(user) ==
    /\ Truthy(user)
    /\ user.is_authenticated
    /\ (user.is_staff \/ user.is_superuser)

(* mutant: a missing declaration defaults to a real scope *)
required_scope_of_DefaultScope(v) ==
    IF v.required_scope.kind = "missing"
    THEN ScopeStr(<<"projects", Sep, "read">>)
    ELSE v.required_scope

(* getattr(view, "required_scope", None) *)
required_scope_of(v) ==
    IF v.required_scope.kind = "missing" THEN ScopeNone ELSE v.required_scope

(* not required_scope *)
Falsy(rs) == rs.kind = "None" \/ rs.s = <<>>

(* getattr(request.user, "scopes", {}) *)
user_scopes_of(user) == IF user.scopes.attached THEN user.scopes.map ELSE <<>>

(* mutant: a scope without separator names a resource and grants any action *)
has_permission_ResourceOnly(user, v) ==
    IF ElevatedBypass(user) THEN TRUE
    ELSE LET required_scope == required_scope_of(v) IN
         IF Falsy(required_scope) THEN FALSE
         ELSE IF ~Truthy(user) \/ ~user.is_authenticated THEN FALSE
         ELSE LET parts == split(required_scope.s) IN
              IF Len(parts) = 1
              THEN Len(parts[1]) = 1 /\ parts[1][1] \in DOMAIN user_scopes_of(user)
              ELSE IF Len(parts) # 2 THEN FALSE
              ELSE InList(parts[2], scopes_get(user_scopes_of(user), parts[1]))

has_permission(user, v) ==
    IF ElevatedBypass(user) THEN TRUE
    ELSE LET required_scope == required_scope_of(v) IN
         IF Falsy(required_scope) THEN FALSE
         ELSE IF ~Truthy(user) \/ ~user.is_authenticated THEN FALSE
         ELSE LET parts == split(required_scope.s) IN
              IF Len(parts) # 2 THEN FALSE
              ELSE InList(parts[2], scopes_get(user_scopes_of(user), parts[1]))

(* Exceptions.  The two-name unpacking of line 64 raises ValueError unless *)
(* split returned two parts; the except clause of line 65 handles it.  The *)
(* attribute reads are guarded: request.user is tested before              *)
(* is_authenticated is read, and both getattr calls carry a default.       *)
unpack(parts) == IF Len(parts) = 2 THEN "ok" ELSE "ValueError"

(* mutant: no except clause around the unpacking *)
except_ValueError_Missing(exc) == FALSE

except_ValueError(exc) == exc = "ValueError"

(* the exception that leaves has_permission, "none" when it returns *)
escapes(user, v) ==
    IF ElevatedBypass(user) THEN "none"
    ELSE LET required_scope == required_scope_of(v) IN
         IF Falsy(required_scope) THEN "none"
         ELSE IF ~Truthy(user) \/ ~user.is_authenticated THEN "none"
         ELSE LET exc == unpack(split(required_scope.s)) IN
              IF exc = "ok" \/ except_ValueError(exc) THEN "none" ELSE exc

(* what a caller of has_permission observes *)
gate_result(user, v) ==
    IF escapes(user, v) # "none" THEN "error"
    ELSE IF has_permission(user, v) THEN "allow" ELSE "deny"

(* --------------------------- gate harness ----------------------------- *)
BagsUpTo(n) == UNION {[S -> 1..n] : S \in SUBSET GateActions}

ScopeMaps == UNION {[R -> BagsUpTo(MaxDup)] : R \in SUBSET GateResources}

ScopeAttrs == {Attached(m) : m \in ScopeMaps} \cup {NoScopes}

UserObjects ==
    [is_none : {FALSE}, id : {0}, is_authenticated : BOOLEAN, is_staff : BOOLEAN,
     is_superuser : BOOLEAN, scopes : ScopeAttrs] \cup {NoneUser}

Views == [required_scope : {ScopeStr(s) : s \in StringsUpTo(MaxScopeLen)}
                            \cup {ScopeMissing, ScopeNone}]

(* previous is a history field: the principal and the scopes of the       *)
(* request answered before this one, where the history is recorded (the    *)
(* code keeps neither)                                                     *)
NoPrevious == [uid |-> 0, scopes |-> NoScopes]
IdleRequest == [phase |-> "idle", kind |-> "none", uid |-> 0, writes |-> 0,
                user |-> NoneUser, user_roles |-> {}, drf_user |-> NoneUser,
                previous |-> NoPrevious]
IdleView == [required_scope |-> ScopeMissing]

(* a worker process with no get_or_create call in progress, and the rows   *)
(* that repeat the key of a row of their table (none)                      *)
IdleWorker == [pc |-> "idle", table |-> "none", key |-> <<>>, outcome |-> "none"]
NoDuplicates == [permissions |-> {}, role_perms |-> {}, user_roles |-> {}]

(* no API call answered yet: the operation, its HTTP status, the role it   *)
(* is about and its body                                                   *)
NoResponse == [op |-> "none", status |-> 0, role |-> "", body |-> <<>>]

InitGate ==
    /\ users = [u \in UserIds |-> [exists |-> FALSE, is_staff |-> FALSE,
                                   is_superuser |-> FALSE, is_active |-> FALSE,
                                   is_deleted |-> FALSE, deleted_at |-> 0]]
    /\ roles = {}
    /\ resources = {}
    /\ actions = {}
    /\ permissions = {}
    /\ role_perms = {}
    /\ user_roles = {}
    /\ \E u \in UserObjects :
          request = [IdleRequest EXCEPT !.phase = "resolved", !.drf_user = u]
    /\ view \in Views
    /\ result = "none"
    /\ workers = [w \in WorkerIds |-> IdleWorker]
    /\ duplicates = NoDuplicates
    /\ response = NoResponse
    /\ other = IdleRequest

CheckPermission ==
    /\ request.phase = "resolved"
    /\ result' = gate_result(request.drf_user, view)
    /\ request' = [request EXCEPT !.phase = "checked"]
    /\ UNCHANGED <<workers, duplicates, response, other>>
    /\ UNCHANGED <<view, users, roles, resources, actions, permissions, role_perms, user_roles>>

(* declarations of the protected views *)
ViewScopes == {ScopeStr(<<"projects", Sep, "read">>),
               ScopeStr(<<"projects", Sep, "create">>)}

(* mutant: a check uses up the scopes it read *)
Recheck_Consuming(v) ==
    /\ request.phase = "checked"
    /\ result' = gate_result(request.drf_user, v)
    /\ view' = v
    /\ request' = [request EXCEPT !.drf_user.scopes = NoScopes]
    /\ UNCHANGED <<workers, duplicates, response, other>>
    /\ UNCHANGED <<users, roles, resources, actions, permissions, role_perms, user_roles>>

(* has_permission called again in the same request, for another view *)
Recheck(v) ==
    /\ request.phase = "checked"
    /\ result' = gate_result(request.drf_user, v)
    /\ view' = v
    /\ UNCHANGED <<workers, duplicates, response, other>>
    /\ UNCHANGED <<users, roles, resources, actions, permissions, role_perms, user_roles,
                   request>>

NextGate ==
    \/ CheckPermission
    \/ \E v \in [required_scope : ViewScopes \cup {ScopeMissing}] : Recheck(v)

SpecGate == InitGate /\ [][NextGate]_vars

(* ------------------------------ the store ----------------------------- *)
(* Tables are sets of rows: the unique constraints of rbac/models.py make *)
(* (resource, action), (role, permission) and (user, role) keys.          *)
(* a user row: is_active defaults to True, is_deleted to False and         *)
(* deleted_at to NULL; deleted_at is 0 for NULL or a time of Times         *)
Times == 1..MaxClock
NoUserRow == [exists |-> FALSE, is_staff |-> FALSE, is_superuser |-> FALSE,
              is_active |-> FALSE, is_deleted |-> FALSE, deleted_at |-> 0]
UserRow(staff, su) == [exists |-> TRUE, is_staff |-> staff, is_superuser |-> su,
                       is_active |-> TRUE, is_deleted |-> FALSE, deleted_at |-> 0]

(* Permission rows an administrator assigns in the model *)
AssignablePerms == {<<"projects", "read">>, <<"projects", "create">>}

(* A store write commits between requests, or while the request in flight *)
(* waits between its resolver and its view (at most MaxMidWrites times).  *)
CanWrite == request.phase = "idle"
            \/ (request.phase = "resolved" /\ request.writes < MaxMidWrites)
Written == IF request.phase = "idle" THEN request
           ELSE [request EXCEPT !.writes = @ + 1]

RolesOf(u) == {rn \in RoleNames : <<u, rn>> \in user_roles}

(* mutant: the Action and Resource querysets of step 3 are read before the *)
(* get_or_create calls of steps 1 and 2                                    *)
create_initial_rbac_data_StaleQuery(st) ==
    LET acts == st.actions \cup actions_to_create
        ress == st.resources \cup resources_to_create
        perms == st.permissions \cup (st.resources \X st.actions)
        created == "Admin" \notin st.roles
        has_perms == \E rp \in st.role_perms : rp[1] = "Admin"
        links == IF created \/ ~has_perms
                 THEN st.role_perms \cup {<<"Admin", p>> : p \in perms}
                 ELSE st.role_perms
    IN [actions |-> acts, resources |-> ress, permissions |-> perms,
        roles |-> st.roles \cup {"Default", "Admin"}, role_perms |-> links]

(* create_initial_rbac_data, on a store record *)
create_initial_rbac_data(st) ==
    LET acts == st.actions \cup actions_to_create
        ress == st.resources \cup resources_to_create
        perms == st.permissions \cup (ress \X acts)
        created == "Admin" \notin st.roles
        has_perms == \E rp \in st.role_perms : rp[1] = "Admin"
        links == IF created \/ ~has_perms
                 THEN st.role_perms \cup {<<"Admin", p>> : p \in perms}
                 ELSE st.role_perms
    IN [actions |-> acts, resources |-> ress, permissions |-> perms,
        roles |-> st.roles \cup {"Default", "Admin"}, role_perms |-> links]

EmptyCatalogue == [actions |-> {}, resources |-> {}, permissions |-> {},
                   roles |-> {}, role_perms |-> {}]

(* mutant: an update of a non-superuser revokes 'Admin' *)
manage_user_roles_RevokeOnDemote(st, u, is_superuser, created) ==
    IF created
    THEN IF is_superuser
         THEN [roles |-> st.roles \cup {"Admin"},
               user_roles |-> st.user_roles \cup {<<u, "Admin">>}]
         ELSE [roles |-> st.roles \cup {"Default"},
               user_roles |-> st.user_roles \cup {<<u, "Default">>}]
    ELSE IF is_superuser
         THEN [roles |-> st.roles \cup {"Admin"},
               user_roles |-> st.user_roles \cup {<<u, "Admin">>}]
         ELSE [roles |-> st.roles,
               user_roles |-> st.user_roles \ {<<u, "Admin">>}]

(* manage_user_roles(sender, instance, created), on <<roles, user_roles>> *)
manage_user_roles(st, u, is_superuser, created) ==
    IF created
    THEN IF is_superuser
         THEN [roles |-> st.roles \cup {"Admin"},
               user_roles |-> st.user_roles \cup {<<u, "Admin">>}]
         ELSE [roles |-> st.roles \cup {"Default"},
               user_roles |-> st.user_roles \cup {<<u, "Default">>}]
    ELSE IF is_superuser
         THEN [roles |-> st.roles \cup {"Admin"},
               user_roles |-> st.user_roles \cup {<<u, "Admin">>}]
         ELSE st

(* AccountsConfig.ready: the receivers of post_save in a process.  With    *)
(* RUN_MAIN = "true" the import of accounts.signals runs @receiver and     *)
(* ready() connects the same function again under a dispatch_uid; in any   *)
(* other process ready() returns before the import.                        *)
receivers(run_main) == IF run_main THEN 2 ELSE 0

RECURSIVE post_save(_, _, _, _, _)
post_save(st, n, u, is_superuser, created) ==
    IF n = 0 THEN st
    ELSE post_save(manage_user_roles(st, u, is_superuser, created), n - 1,
                   u, is_superuser, created)

(* UserManager.create_user / create_superuser: save, then post_save *)
CreateUser(u, staff, su, run_main) ==
    /\ CanWrite
    /\ request' = Written
    /\ ~users[u].exists
    /\ users' = [users EXCEPT ![u] = UserRow(staff, su)]
    /\ LET st == post_save([roles |-> roles, user_roles |-> user_roles],
                           receivers(run_main), u, su, TRUE)
       IN /\ roles' = st.roles
          /\ user_roles' = st.user_roles
    /\ UNCHANGED <<workers, duplicates, response, other>>
    /\ UNCHANGED <<resources, actions, permissions, role_perms, view, result>>

(* The paths that register a principal.  register_user is decorated with  *)
(* transaction.atomic; UserRegisterSerializer.create, RegisterForm.save    *)
(* and create_superuser call save() in autocommit, where the INSERT of the *)
(* user row is committed before post_save is sent.                         *)
RegisterPaths == {"register_user", "UserRegisterSerializer.create",
                  "RegisterForm.save", "create_superuser"}
atomic(path) == path = "register_user"

(* fails: the process stops, or a receiver raises, after the user row is   *)
(* written and before a UserRole row is                                    *)
RegisterUser(u, path, run_main, fails) ==
    /\ CanWrite
    /\ request' = Written
    /\ ~users[u].exists
    /\ LET su == path = "create_superuser"
           st == post_save([roles |-> roles, user_roles |-> user_roles],
                           receivers(run_main), u, su, TRUE)
       IN IF ~fails
          THEN /\ users' = [users EXCEPT ![u] = UserRow(su, su)]
               /\ roles' = st.roles
               /\ user_roles' = st.user_roles
          ELSE IF atomic(path)
          THEN UNCHANGED <<users, roles, user_roles>>
          ELSE /\ users' = [users EXCEPT ![u] = UserRow(su, su)]
               /\ UNCHANGED <<roles, user_roles>>
    /\ UNCHANGED <<workers, duplicates, response, other>>
    /\ UNCHANGED <<resources, actions, permissions, role_perms, view, result>>

(* an update of an existing user (admin change form, AdminUserUpdateSerializer) *)
SaveUser(u, staff, su, run_main) ==
    /\ CanWrite
    /\ request' = Written
    /\ users[u].exists
    /\ users' = [users EXCEPT ![u].is_staff = staff, ![u].is_superuser = su]
    /\ LET st == post_save([roles |-> roles, user_roles |-> user_roles],
                           receivers(run_main), u, su, FALSE)
       IN /\ roles' = st.roles
          /\ user_roles' = st.user_roles
    /\ UNCHANGED <<workers, duplicates, response, other>>
    /\ UNCHANGED <<resources, actions, permissions, role_perms, view, result>>

(* UserViewSet.assign_role *)
AssignRole(u, rn) ==
    /\ CanWrite
    /\ request' = Written
    /\ users[u].exists
    /\ rn \in roles
    /\ user_roles' = user_roles \cup {<<u, rn>>}
    /\ UNCHANGED <<workers, duplicates, response, other>>
    /\ UNCHANGED <<users, roles, resources, actions, permissions, role_perms, view, result>>

(* mutant: the link is made with create() and the unique constraint on    *)
(* (role, permission) rejects the second call                              *)
AssignPermission_Create(rn, p) ==
    /\ CanWrite
    /\ request' = Written
    /\ rn \in roles
    /\ p \in permissions
    /\ <<rn, p>> \notin role_perms
    /\ role_perms' = role_perms \cup {<<rn, p>>}
    /\ UNCHANGED <<workers, duplicates, response, other>>
    /\ UNCHANGED <<users, roles, resources, actions, permissions, user_roles, view, result>>

(* RoleViewSet.assign_permission *)
AssignPermission(rn, p) ==
    /\ CanWrite
    /\ request' = Written
    /\ rn \in roles
    /\ p \in permissions
    /\ role_perms' = role_perms \cup {<<rn, p>>}
    /\ UNCHANGED <<workers, duplicates, response, other>>
    /\ UNCHANGED <<users, roles, resources, actions, permissions, user_roles, view, result>>

(* RoleViewSet create / destroy; the foreign keys to Role cascade *)
CreateRole(rn) ==
    /\ CanWrite
    /\ request' = Written
    /\ rn \notin roles
    /\ roles' = roles \cup {rn}
    /\ UNCHANGED <<workers, duplicates, response, other>>
    /\ UNCHANGED <<users, resources, actions, permissions, role_perms, user_roles, view, result>>

DeleteRole(rn) ==
    /\ CanWrite
    /\ request' = Written
    /\ rn \in roles
    /\ roles' = roles \ {rn}
    /\ role_perms' = {rp \in role_perms : rp[1] # rn}
    /\ user_roles' = {ur \in user_roles : ur[2] # rn}
    /\ UNCHANGED <<workers, duplicates, response, other>>
    /\ UNCHANGED <<users, resources, actions, permissions, view, result>>

(* the data migration run again on the current store *)
Seed ==
    /\ CanWrite
    /\ request' = Written
    /\ LET st == create_initial_rbac_data(
                    [actions |-> actions, resources |-> resources,
                     permissions |-> permissions, roles |-> roles,
                     role_perms |-> role_perms])
       IN /\ actions' = st.actions
          /\ resources' = st.resources
          /\ permissions' = st.permissions
          /\ roles' = st.roles
          /\ role_perms' = st.role_perms
    /\ UNCHANGED <<workers, duplicates, response, other>>
    /\ UNCHANGED <<users, user_roles, view, result>>

(* User.soft_delete / User.restore: the three fields change and save()     *)
(* sends post_save with created = False; now is timezone.now()             *)
soft_delete(row, now) ==
    [row EXCEPT !.is_deleted = TRUE, !.deleted_at = now, !.is_active = FALSE]
restore(row) ==
    [row EXCEPT !.is_deleted = FALSE, !.deleted_at = 0, !.is_active = TRUE]

(* SoftDeleteMeAPIView.post / DeleteMeView.post: the caller is logged in,   *)
(* and both authentication backends refuse a user that is not active       *)
SoftDelete(u, run_main, now) ==
    /\ CanWrite
    /\ request' = Written
    /\ users[u].exists
    /\ users[u].is_active
    /\ users' = [users EXCEPT ![u] = soft_delete(@, now)]
    /\ LET st == post_save([roles |-> roles, user_roles |-> user_roles],
                           receivers(run_main), u, users[u].is_superuser, FALSE)
       IN /\ roles' = st.roles
          /\ user_roles' = st.user_roles
    /\ UNCHANGED <<workers, duplicates, response, other>>
    /\ UNCHANGED <<resources, actions, permissions, role_perms, view, result>>

(* RestoreUserAPIView.post / UserAdmin.restore_user: get(pk, is_deleted=True) *)
Restore(u, run_main) ==
    /\ CanWrite
    /\ request' = Written
    /\ users[u].exists
    /\ users[u].is_deleted
    /\ users' = [users EXCEPT ![u] = restore(@)]
    /\ LET st == post_save([roles |-> roles, user_roles |-> user_roles],
                           receivers(run_main), u, users[u].is_superuser, FALSE)
       IN /\ roles' = st.roles
          /\ user_roles' = st.user_roles
    /\ UNCHANGED <<workers, duplicates, response, other>>
    /\ UNCHANGED <<resources, actions, permissions, role_perms, view, result>>

(* Resource and Action rows an administrator deletes in the model *)
DeletableResources == {"projects"}
DeletableActions == {"read"}

(* ResourceAdmin / ActionAdmin delete: Permission.resource, Permission.action *)
(* and RolePermission.permission are on_delete=CASCADE                        *)
(* mutant: the delete does not reach the RolePermission links *)
DeleteResource_KeepLinks(r) ==
    /\ CanWrite
    /\ request' = Written
    /\ r \in resources
    /\ resources' = resources \ {r}
    /\ permissions' = {p \in permissions : p[1] # r}
    /\ UNCHANGED <<workers, duplicates, response, other>>
    /\ UNCHANGED <<users, roles, actions, role_perms, user_roles, view, result>>

DeleteResource(r) ==
    /\ CanWrite
    /\ request' = Written
    /\ r \in resources
    /\ resources' = resources \ {r}
    /\ permissions' = {p \in permissions : p[1] # r}
    /\ role_perms' = {rp \in role_perms : rp[2][1] # r}
    /\ UNCHANGED <<workers, duplicates, response, other>>
    /\ UNCHANGED <<users, roles, actions, user_roles, view, result>>

DeleteAction(a) ==
    /\ CanWrite
    /\ request' = Written
    /\ a \in actions
    /\ actions' = actions \ {a}
    /\ permissions' = {p \in permissions : p[2] # a}
    /\ role_perms' = {rp \in role_perms : rp[2][2] # a}
    /\ UNCHANGED <<workers, duplicates, response, other>>
    /\ UNCHANGED <<users, roles, resources, user_roles, view, result>>

(* ---------------------- concurrent get_or_create ---------------------- *)
(* Every write of a Permission, RolePermission or UserRole row in the code *)
(* is Model.objects.get_or_create on a key: a SELECT and, when it finds no *)
(* row, an INSERT.  Two worker processes interleave these statements.      *)
(* The keys the workers write in the model:                                *)
RaceKeys ==
    [permissions |-> {<<"projects", "read">>},
     role_perms |-> {<<"Admin", <<"projects", "read">>>>,
                     <<"Default", <<"projects", "read">>>>},
     user_roles |-> {<<1, "Default">>, <<1, "Admin">>}]

Table(t) ==
    CASE t = "permissions" -> permissions
      [] t = "role_perms" -> role_perms
      [] t = "user_roles" -> user_roles

(* the rows the foreign keys of a new row point to are there *)
Parents(t, key) ==
    CASE t = "permissions" -> key[1] \in resources /\ key[2] \in actions
      [] t = "role_perms" -> key[1] \in roles /\ key[2] \in permissions
      [] t = "user_roles" -> users[key[1]].exists /\ key[2] \in roles

(* mutant: the tables carry no unique constraint *)
unique_together_None(t, key) == FALSE

(* Meta.unique_together: an INSERT of a key that is in the table violates  *)
(* the constraint                                                          *)
unique_together(t, key) == key \in Table(t)

(* the SELECT of get_or_create *)
GetOrCreateSelect(w, t, key) ==
    /\ workers[w].pc = "idle"
    /\ Parents(t, key)
    /\ workers' = [workers EXCEPT ![w] =
                      IF key \in Table(t)
                      THEN [pc |-> "returned", table |-> t, key |-> key,
                            outcome |-> "found"]
                      ELSE [pc |-> "insert", table |-> t, key |-> key,
                            outcome |-> "none"]]
    /\ UNCHANGED <<users, roles, resources, actions, permissions, role_perms,
                   user_roles, request, view, result, duplicates, response, other>>

(* the INSERT of get_or_create: an IntegrityError of the unique constraint *)
(* is caught and the row is read again; an IntegrityError of a foreign key *)
(* leaves no row to read and is raised to the caller                       *)
GetOrCreateInsert(w) ==
    /\ workers[w].pc = "insert"
    /\ LET t == workers[w].table
           key == workers[w].key
           integrity_error == unique_together(t, key) \/ ~Parents(t, key)
           outcome == IF unique_together(t, key) THEN "found"
                      ELSE IF ~Parents(t, key) THEN "error"
                      ELSE "created"
           repeats == key \in Table(t)
           inserted(name, rows) == IF t = name /\ ~integrity_error /\ ~repeats
                                   THEN rows \cup {key} ELSE rows
       IN /\ workers' = [workers EXCEPT ![w].pc = "returned", ![w].outcome = outcome]
          /\ permissions' = inserted("permissions", permissions)
          /\ role_perms' = inserted("role_perms", role_perms)
          /\ user_roles' = inserted("user_roles", user_roles)
          /\ duplicates' = IF ~integrity_error /\ repeats
                           THEN [duplicates EXCEPT ![t] = @ \cup {key}]
                           ELSE duplicates
    /\ UNCHANGED <<users, roles, resources, actions, request, view, result, response,
                   other>>

(* get_or_create returns to its caller *)
GetOrCreateReturn(w) ==
    /\ workers[w].pc = "returned"
    /\ workers' = [workers EXCEPT ![w] = IdleWorker]
    /\ UNCHANGED <<users, roles, resources, actions, permissions, role_perms,
                   user_roles, request, view, result, duplicates, response, other>>

(* ------------------------ bearer authentication ----------------------- *)
(* The bearer tokens a request can carry: valid is whether decode_token    *)
(* accepts the signature and the expiry, type and sub are the claims of    *)
(* the payload (sub 0: no user identifier).  generate_tokens issues, for   *)
(* user u, an access and a refresh token with sub u.                       *)
BearerTokens == [valid : BOOLEAN, type : {"access", "refresh"}, sub : UserIds \cup {0}]
AccessToken(u) == [valid |-> TRUE, type |-> "access", sub |-> u]
AuthenticationFailed == [outcome |-> "AuthenticationFailed", user |-> NoneUser]

(* User.objects.get(id=user_id, is_active=True, is_deleted=False) finds a row *)
get(user_id) ==
    users[user_id].exists /\ users[user_id].is_active /\ ~users[user_id].is_deleted

(* mutant: the type of the token is not looked at *)
authenticate_AnyType(tok) ==
    IF ~tok.valid THEN AuthenticationFailed
    ELSE IF tok.sub = 0 THEN AuthenticationFailed
    ELSE IF ~get(tok.sub) THEN AuthenticationFailed
    ELSE [outcome |-> "user",
          user |-> [is_none |-> FALSE, id |-> tok.sub, is_authenticated |-> TRUE,
                    is_staff |-> users[tok.sub].is_staff,
                    is_superuser |-> users[tok.sub].is_superuser,
                    scopes |-> NoScopes]]

(* BearerJWTAuthentication.authenticate on a request with a Bearer header *)
authenticate(tok) ==
    IF ~tok.valid THEN AuthenticationFailed
    ELSE IF tok.type # "access" THEN AuthenticationFailed
    ELSE IF tok.sub = 0 THEN AuthenticationFailed
    ELSE IF ~get(tok.sub) THEN AuthenticationFailed
    ELSE [outcome |-> "user",
          user |-> [is_none |-> FALSE, id |-> tok.sub, is_authenticated |-> TRUE,
                    is_staff |-> users[tok.sub].is_staff,
                    is_superuser |-> users[tok.sub].is_superuser,
                    scopes |-> NoScopes]]

(* ------------------------- the request pipeline ----------------------- *)
(* scopes.setdefault(resource_code, []).append(action_code), once for     *)
(* every (UserRole row, RolePermission row of its role)                   *)
(* mutant: the UserRole filter on the user is dropped *)
Grants_AllUsers(u) == {x \in user_roles \X role_perms : x[2][1] = x[1][2]}

(* mutant: every role's permissions reach every role holder *)
Grants_AnyRole(u) == {x \in user_roles \X role_perms : x[1][1] = u}

Grants(u) == {x \in user_roles \X role_perms : x[1][1] = u /\ x[2][1] = x[1][2]}

resolve_scopes(u) ==
    LET g == Grants(u)
        res == {x[2][2][1] : x \in g}
        acts(r) == {x[2][2][2] : x \in {y \in g : y[2][2][1] = r}}
    IN [r \in res |->
          [a \in acts(r) |-> Cardinality({x \in g : x[2][2] = <<r, a>>})]]

(* request.user as Django's session authentication supplies it *)
session_user(kind, u) ==
    IF kind = "session" /\ users[u].exists
    THEN [is_none |-> FALSE, id |-> u, is_authenticated |-> TRUE,
          is_staff |-> users[u].is_staff, is_superuser |-> users[u].is_superuser,
          scopes |-> NoScopes]
    ELSE AnonymousUser(NoScopes)

(* RBACMiddleware.__call__ up to get_response *)
rbac_middleware(user) ==
    IF user.is_authenticated
    THEN [user EXCEPT !.scopes = Attached(resolve_scopes(user.id))]
    ELSE [user EXCEPT !.scopes = Attached(<<>>)]

(* mutant: the scopes computed for a principal are kept and used again on *)
(* its next request                                                        *)
Middleware_Cached(kind, u) ==
    /\ request.phase = "idle"
    /\ kind \in {"session", "bearer"} => users[u].exists
    /\ LET user == session_user(kind, u)
           cached == user.is_authenticated /\ request.previous.uid = u
                     /\ request.previous.scopes.attached
       IN request' = [phase |-> "resolved", kind |-> kind, uid |-> u, writes |-> 0,
                      user |-> IF cached
                               THEN [user EXCEPT !.scopes = request.previous.scopes]
                               ELSE rbac_middleware(user),
                      user_roles |-> IF user.is_authenticated THEN RolesOf(u) ELSE {},
                      drf_user |-> NoneUser,
                      previous |-> request.previous]
    /\ UNCHANGED <<workers, duplicates, response, other>>
    /\ UNCHANGED <<users, roles, resources, actions, permissions, role_perms, user_roles,
                   view, result>>

Middleware(kind, u) ==
    /\ request.phase = "idle"
    /\ kind \in {"session", "bearer"} => users[u].exists
    /\ LET user == session_user(kind, u)
       IN request' = [phase |-> "resolved", kind |-> kind, uid |-> u, writes |-> 0,
                      user |-> rbac_middleware(user),
                      user_roles |-> IF user.is_authenticated THEN RolesOf(u) ELSE {},
                      drf_user |-> NoneUser,
                      previous |-> request.previous]
    /\ UNCHANGED <<workers, duplicates, response, other>>
    /\ UNCHANGED <<users, roles, resources, actions, permissions, role_perms, user_roles,
                   view, result>>

(* The principal of the REST view: BearerJWTAuthentication.authenticate    *)
(* returns a user row read at that moment; a request without a bearer      *)
(* header falls through to the session principal or to a new anonymous one *)
drf_authenticate(req) ==
    IF req.kind = "bearer" /\ authenticate(AccessToken(req.uid)).outcome = "user"
    THEN authenticate(AccessToken(req.uid)).user
    ELSE IF req.kind = "session" /\ req.user.is_authenticated
    THEN req.user
    ELSE AnonymousUser(NoScopes)

(* permission_classes = [IsAuthenticated, HasScope] of the protected views *)
IsAuthenticated(user) == Truthy(user) /\ user.is_authenticated

(* mutant: the resolver keeps the map on the middleware instance, which    *)
(* every request of the process reads                                      *)
View_SharedScopes(v) ==
    /\ request.phase = "resolved"
    /\ LET own == drf_authenticate(request)
           user == IF other.phase # "idle" /\ own.scopes.attached
                   THEN [own EXCEPT !.scopes = other.user.scopes] ELSE own
       IN /\ request' = [request EXCEPT !.phase = IF IsAuthenticated(user)
                                                  THEN "checked" ELSE "rejected",
                                        !.drf_user = user]
          /\ result' = IF IsAuthenticated(user) THEN gate_result(user, v) ELSE "deny"
    /\ view' = v
    /\ UNCHANGED <<workers, duplicates, response, other>>
    /\ UNCHANGED <<users, roles, resources, actions, permissions, role_perms, user_roles>>

View(v) ==
    /\ request.phase = "resolved"
    /\ LET user == drf_authenticate(request)
       IN /\ request' = [request EXCEPT !.phase = IF IsAuthenticated(user)
                                                  THEN "checked" ELSE "rejected",
                                        !.drf_user = user]
          /\ result' = IF IsAuthenticated(user) THEN gate_result(user, v) ELSE "deny"
    /\ view' = v
    /\ UNCHANGED <<workers, duplicates, response, other>>
    /\ UNCHANGED <<users, roles, resources, actions, permissions, role_perms, user_roles>>

Respond ==
    /\ request.phase \in {"checked", "rejected"}
    /\ request' = IdleRequest
    /\ view' = IdleView
    /\ result' = "none"
    /\ UNCHANGED <<workers, duplicates, response, other>>
    /\ UNCHANGED <<users, roles, resources, actions, permissions, role_perms, user_roles>>

(* Respond, with the answered request remembered in the history field *)
RespondRecorded ==
    /\ request.phase \in {"checked", "rejected"}
    /\ request' = [IdleRequest EXCEPT !.previous = [uid |-> request.uid,
                                                    scopes |-> request.user.scopes]]
    /\ view' = IdleView
    /\ result' = "none"
    /\ UNCHANGED <<workers, duplicates, response, other>>
    /\ UNCHANGED <<users, roles, resources, actions, permissions, role_perms, user_roles>>

(* ---------------------------- specification --------------------------- *)
Init ==
    /\ users = [u \in UserIds |-> NoUserRow]
    /\ LET st == create_initial_rbac_data(EmptyCatalogue)
       IN /\ actions = st.actions
          /\ resources = st.resources
          /\ permissions = st.permissions
          /\ roles = st.roles
          /\ role_perms = st.role_perms
    /\ user_roles = {}
    /\ request = IdleRequest
    /\ view = IdleView
    /\ result = "none"
    /\ workers = [w \in WorkerIds |-> IdleWorker]
    /\ duplicates = NoDuplicates
    /\ response = NoResponse
    /\ other = IdleRequest

Next ==
    \/ \E u \in UserIds, staff \in BOOLEAN, su \in BOOLEAN, run_main \in BOOLEAN :
          CreateUser(u, staff, su, run_main)
    \/ \E u \in UserIds, staff \in BOOLEAN, su \in BOOLEAN, run_main \in BOOLEAN :
          SaveUser(u, staff, su, run_main)
    \/ \E u \in UserIds, rn \in RoleNames : AssignRole(u, rn)
    \/ \E rn \in RoleNames, p \in AssignablePerms : AssignPermission(rn, p)
    \/ \E rn \in RoleNames : CreateRole(rn)
    \/ \E rn \in RoleNames : DeleteRole(rn)
    \/ Seed
    \/ \E kind \in {"session", "bearer"}, u \in UserIds : Middleware(kind, u)
    \/ Middleware("none", 0)
    \/ \E v \in [required_scope : ViewScopes \cup {ScopeMissing}] : View(v)
    \/ Respond

Spec == Init /\ [][Next]_vars

(* The store on its own: every operation that writes a table, with no     *)
(* request in flight.                                                      *)
NextStore ==
    \/ \E u \in UserIds, staff \in BOOLEAN, su \in BOOLEAN, run_main \in BOOLEAN :
          CreateUser(u, staff, su, run_main)
    \/ \E u \in UserIds, path \in RegisterPaths, run_main \in BOOLEAN, fails \in BOOLEAN :
          RegisterUser(u, path, run_main, fails)
    \/ \E u \in UserIds, staff \in BOOLEAN, su \in BOOLEAN, run_main \in BOOLEAN :
          SaveUser(u, staff, su, run_main)
    \/ \E u \in UserIds, run_main \in BOOLEAN, now \in Times : SoftDelete(u, run_main, now)
    \/ \E u \in UserIds, run_main \in BOOLEAN : Restore(u, run_main)
    \/ \E u \in UserIds, rn \in RoleNames : AssignRole(u, rn)
    \/ \E rn \in RoleNames, p \in AssignablePerms : AssignPermission(rn, p)
    \/ \E rn \in RoleNames : CreateRole(rn)
    \/ \E rn \in RoleNames : DeleteRole(rn)
    \/ \E r \in DeletableResources : DeleteResource(r)
    \/ \E a \in DeletableActions : DeleteAction(a)
    \/ Seed

SpecStore == Init /\ [][NextStore]_vars

(* Two workers running get_or_create calls of seed runs, assign-permission *)
(* calls, assign-role calls and hook runs against each other, while rows   *)
(* the keys depend on are created and deleted.                             *)
NextConcurrent ==
    \/ \E w \in WorkerIds, t \in DOMAIN RaceKeys :
          \E key \in RaceKeys[t] : GetOrCreateSelect(w, t, key)
    \/ \E w \in WorkerIds : GetOrCreateInsert(w)
    \/ \E w \in WorkerIds : GetOrCreateReturn(w)
    \/ \E su \in BOOLEAN, run_main \in BOOLEAN : CreateUser(1, FALSE, su, run_main)
    \/ \E rn \in RoleNames : DeleteRole(rn)
    \/ \E r \in DeletableResources : DeleteResource(r)
    \/ Seed

SpecConcurrent == Init /\ [][NextConcurrent]_vars

(* Requests of the principals one after the other, with role assignments   *)
(* and role permissions edited between and during them; the history field  *)
(* holds what the request before resolved.                                 *)
NextRecompute ==
    \/ \E u \in UserIds, run_main \in BOOLEAN : CreateUser(u, FALSE, FALSE, run_main)
    \/ \E u \in UserIds, rn \in RoleNames : AssignRole(u, rn)
    \/ \E rn \in RoleNames, p \in AssignablePerms : AssignPermission(rn, p)
    \/ \E rn \in RoleNames : DeleteRole(rn)
    \/ \E r \in DeletableResources : DeleteResource(r)
    \/ \E kind \in {"session", "bearer"}, u \in UserIds : Middleware(kind, u)
    \/ \E v \in [required_scope : ViewScopes \cup {ScopeMissing}] : View(v)
    \/ RespondRecorded

SpecRecompute == Init /\ [][NextRecompute]_vars

(* ------------------------- the role responses ------------------------- *)
(* The rows of an unordered query come in an order the database chooses:  *)
(* RolePermission declares no Meta.ordering, so role.role_perms.all() is  *)
(* any arrangement of the role's rows (Permission.Meta.ordering sorts     *)
(* Permission querysets only).                                            *)
Orders(rows) ==
    {o \in [1..Cardinality(rows) -> rows] :
        \A i, j \in 1..Cardinality(rows) : i # j => o[i] # o[j]}

(* role.role_perms of the Role object that get_object() returns: the      *)
(* prefetch_related of RoleViewSet.queryset fills it when the role is     *)
(* fetched and .all() reads that result afterwards                        *)
prefetch_related(rn, rp) == {x \in rp : x[1] = rn}

(* RoleSerializer.get_permissions: [rp.permission for rp in obj.role_perms.all()] *)
get_permissions(order) == [i \in DOMAIN order |-> order[i][2]]

(* roles whose detail is requested in the model *)
ListedRoles == {"Default"}

(* RoleViewSet.retrieve *)
RetrieveRole(rn) ==
    /\ request.phase = "idle"
    /\ response.op = "none"
    /\ rn \in roles
    /\ \E order \in Orders(prefetch_related(rn, role_perms)) :
          response' = [op |-> "retrieve", status |-> 200, role |-> rn,
                       body |-> get_permissions(order)]
    /\ UNCHANGED <<users, roles, resources, actions, permissions, role_perms, user_roles,
                   request, view, result, workers, duplicates, other>>

(* RoleViewSet.assign_permission with its response: get_object() fetches   *)
(* the role and its prefetched rows, get_or_create writes the link through *)
(* RolePermission.objects, and the serializer reads the prefetched rows    *)
assign_permission(rn, p) ==
    /\ request.phase = "idle"
    /\ response.op = "none"
    /\ rn \in roles
    /\ p \in permissions
    /\ role_perms' = role_perms \cup {<<rn, p>>}
    /\ \E order \in Orders(prefetch_related(rn, role_perms)) :
          response' = [op |-> "assign_permission", status |-> 200, role |-> rn,
                       body |-> get_permissions(order)]
    /\ UNCHANGED <<users, roles, resources, actions, permissions, user_roles,
                   request, view, result, workers, duplicates, other>>

(* the response is sent *)
Sent ==
    /\ response.op # "none"
    /\ response' = NoResponse
    /\ UNCHANGED <<users, roles, resources, actions, permissions, role_perms, user_roles,
                   request, view, result, workers, duplicates, other>>

(* Role management through the REST API: permissions are assigned, roles   *)
(* deleted and created again, and role details read.                       *)
NextRoles ==
    \/ \E rn \in ListedRoles, p \in AssignablePerms : assign_permission(rn, p)
    \/ \E rn \in ListedRoles : RetrieveRole(rn)
    \/ Sent
    \/ \E rn \in RoleNames : CreateRole(rn)
    \/ \E rn \in RoleNames : DeleteRole(rn)
    \/ \E r \in DeletableResources : DeleteResource(r)
    \/ \E a \in DeletableActions : DeleteAction(a)
    \/ Seed

SpecRoles == Init /\ [][NextRoles]_vars

(* --------------------------- the user lifecycle ----------------------- *)
(* UserAdmin.soft_delete_selected: queryset.update(is_deleted=True,       *)
(* is_active=False) writes the two columns of the selected rows in one    *)
(* UPDATE: no save() is called, no post_save is sent, and deleted_at is   *)
(* not written                                                            *)
update(row) == [row EXCEPT !.is_deleted = TRUE, !.is_active = FALSE]

soft_delete_selected(queryset) ==
    /\ CanWrite
    /\ request' = Written
    /\ queryset # {}
    /\ \A u \in queryset : users[u].exists
    /\ users' = [u \in UserIds |-> IF u \in queryset THEN update(users[u]) ELSE users[u]]
    /\ UNCHANGED <<workers, duplicates, response, other>>
    /\ UNCHANGED <<roles, resources, actions, permissions, role_perms, user_roles,
                   view, result>>

(* UserViewSet.partial_update with AdminUserUpdateSerializer: is_active    *)
(* and is_staff are writable, serializer.save() sends post_save             *)
partial_update(u, is_active, is_staff, run_main) ==
    /\ CanWrite
    /\ request' = Written
    /\ users[u].exists
    /\ users' = [users EXCEPT ![u].is_active = is_active, ![u].is_staff = is_staff]
    /\ LET st == post_save([roles |-> roles, user_roles |-> user_roles],
                           receivers(run_main), u, users[u].is_superuser, FALSE)
       IN /\ roles' = st.roles
          /\ user_roles' = st.user_roles
    /\ UNCHANGED <<workers, duplicates, response, other>>
    /\ UNCHANGED <<resources, actions, permissions, role_perms, view, result>>

(* The change form of UserAdmin: is_active and is_deleted are fields of    *)
(* the form, deleted_at is in readonly_fields; the form saves the object   *)
change_view(u, is_active, is_deleted, run_main) ==
    /\ CanWrite
    /\ request' = Written
    /\ users[u].exists
    /\ users' = [users EXCEPT ![u].is_active = is_active, ![u].is_deleted = is_deleted]
    /\ LET st == post_save([roles |-> roles, user_roles |-> user_roles],
                           receivers(run_main), u, users[u].is_superuser, FALSE)
       IN /\ roles' = st.roles
          /\ user_roles' = st.user_roles
    /\ UNCHANGED <<workers, duplicates, response, other>>
    /\ UNCHANGED <<resources, actions, permissions, role_perms, view, result>>

(* Users created, soft-deleted and restored by themselves and by the       *)
(* administrators, in processes with and without the hook, and roles       *)
(* deleted by the administrators.                                          *)
NextUsers ==
    \/ \E u \in UserIds, su \in BOOLEAN, run_main \in BOOLEAN :
          CreateUser(u, FALSE, su, run_main)
    \/ \E u \in UserIds, run_main \in BOOLEAN, now \in Times : SoftDelete(u, run_main, now)
    \/ \E u \in UserIds, run_main \in BOOLEAN : Restore(u, run_main)
    \/ \E queryset \in SUBSET UserIds : soft_delete_selected(queryset)
    \/ \E u \in UserIds, is_active \in BOOLEAN, is_staff \in BOOLEAN, run_main \in BOOLEAN :
          partial_update(u, is_active, is_staff, run_main)
    \/ \E u \in UserIds, is_active \in BOOLEAN, is_deleted \in BOOLEAN, run_main \in BOOLEAN :
          change_view(u, is_active, is_deleted, run_main)
    \/ \E rn \in RoleNames : DeleteRole(rn)

SpecUsers == Init /\ [][NextUsers]_vars

(* a request with the token reaches an API view: DRF answers 401 when the  *)
(* authentication class raises AuthenticationFailed                        *)
Authenticate(tok) ==
    /\ request.phase = "idle"
    /\ response.op = "none"
    /\ response' = [op |-> "authenticate",
                    status |-> IF authenticate(tok).outcome = "user" THEN 200 ELSE 401,
                    role |-> "", body |-> <<tok>>]
    /\ UNCHANGED <<users, roles, resources, actions, permissions, role_perms, user_roles,
                   request, view, result, workers, duplicates, other>>

(* Bearer requests with every kind of token while users are created,       *)
(* soft-deleted, restored and updated by the administrators.               *)
NextAuth ==
    \/ \E u \in UserIds, run_main \in BOOLEAN : CreateUser(u, FALSE, FALSE, run_main)
    \/ \E u \in UserIds, run_main \in BOOLEAN, now \in Times : SoftDelete(u, run_main, now)
    \/ \E u \in UserIds, run_main \in BOOLEAN : Restore(u, run_main)
    \/ \E queryset \in SUBSET UserIds : soft_delete_selected(queryset)
    \/ \E u \in UserIds, is_active \in BOOLEAN, is_staff \in BOOLEAN, run_main \in BOOLEAN :
          partial_update(u, is_active, is_staff, run_main)
    \/ \E tok \in BearerTokens : Authenticate(tok)
    \/ Sent

SpecAuth == Init /\ [][NextAuth]_vars

(* ------------------------- a failure in the hook ---------------------- *)
(* manage_user_roles calls Role.objects.get_or_create and then             *)
(* UserRole.objects.get_or_create with no try statement around them, and   *)
(* Model.save sends post_save with send(), which lets the exception of a   *)
(* receiver through to the caller of save().                               *)
(* mutant: the hook catches the exception and returns *)
except_Exception_Swallowed(exc) == TRUE

(* the handlers of manage_user_roles for an exception exc: there is none *)
except_Exception(exc) == FALSE

FailPoints == {"none", "Role.get_or_create", "UserRole.get_or_create"}

(* A registration in a process with the hook connected, the get_or_create  *)
(* named by fail_at raising DatabaseError.  What the statements before the *)
(* failure wrote is rolled back under transaction.atomic and stays         *)
(* committed in autocommit.                                                *)
save(u, path, fail_at) ==
    /\ request.phase = "idle"
    /\ response.op = "none"
    /\ ~users[u].exists
    /\ LET su == path = "create_superuser"
           role == IF su THEN "Admin" ELSE "Default"
           st == post_save([roles |-> roles, user_roles |-> user_roles],
                           receivers(TRUE), u, su, TRUE)
           raised == fail_at # "none" /\ ~except_Exception("DatabaseError")
           rolled_back == raised /\ atomic(path)
       IN /\ users' = IF rolled_back THEN users
                      ELSE [users EXCEPT ![u] = UserRow(su, su)]
          /\ roles' = IF fail_at = "none" THEN st.roles
                      ELSE IF rolled_back \/ fail_at = "Role.get_or_create" THEN roles
                      ELSE roles \cup {role}
          /\ user_roles' = IF fail_at = "none" THEN st.user_roles ELSE user_roles
          /\ response' = [op |-> "save", status |-> IF raised THEN 500 ELSE 201,
                          role |-> role, body |-> <<u, path>>]
    /\ UNCHANGED <<resources, actions, permissions, role_perms, request, view, result,
                   workers, duplicates, other>>

(* Registrations on every path, with and without a failure in the hook,    *)
(* while roles are deleted and created.                                    *)
NextHook ==
    \/ \E u \in UserIds, path \in RegisterPaths, fail_at \in FailPoints :
          save(u, path, fail_at)
    \/ Sent
    \/ \E rn \in RoleNames : CreateRole(rn)
    \/ \E rn \in RoleNames : DeleteRole(rn)

SpecHook == Init /\ [][NextHook]_vars

(* ------------------------- two requests in flight --------------------- *)
(* A second request served by another thread of the same process, with    *)
(* its own HttpRequest and its own request.user object; the middleware    *)
(* instance the threads share holds get_response and nothing else.        *)
OtherMiddleware(kind, u) ==
    /\ other.phase = "idle"
    /\ users[u].exists
    /\ LET user == session_user(kind, u)
       IN other' = [phase |-> "resolved", kind |-> kind, uid |-> u, writes |-> 0,
                    user |-> rbac_middleware(user),
                    user_roles |-> IF user.is_authenticated THEN RolesOf(u) ELSE {},
                    drf_user |-> NoneUser,
                    previous |-> other.previous]
    /\ UNCHANGED <<users, roles, resources, actions, permissions, role_perms, user_roles,
                   request, view, result, workers, duplicates, response>>

OtherView ==
    /\ other.phase = "resolved"
    /\ LET user == drf_authenticate(other)
       IN other' = [other EXCEPT !.phase = IF IsAuthenticated(user)
                                           THEN "checked" ELSE "rejected",
                                 !.drf_user = user]
    /\ UNCHANGED <<users, roles, resources, actions, permissions, role_perms, user_roles,
                   request, view, result, workers, duplicates, response>>

OtherRespond ==
    /\ other.phase \in {"checked", "rejected"}
    /\ other' = IdleRequest
    /\ UNCHANGED <<users, roles, resources, actions, permissions, role_perms, user_roles,
                   request, view, result, workers, duplicates, response>>

(* Two requests interleaved step by step, by the same or by different      *)
(* principals, while roles are assigned and permissions linked.            *)
NextShared ==
    \/ \E u \in UserIds : CreateUser(u, FALSE, FALSE, TRUE)
    \/ \E u \in UserIds : AssignRole(u, "Admin")
    \/ \E p \in AssignablePerms : AssignPermission("Default", p)
    \/ \E kind \in {"session", "bearer"}, u \in UserIds : Middleware(kind, u)
    \/ \E v \in [required_scope : ViewScopes] : View(v)
    \/ Respond
    \/ \E kind \in {"session", "bearer"}, u \in UserIds : OtherMiddleware(kind, u)
    \/ OtherView
    \/ OtherRespond

SpecShared == Init /\ [][NextShared]_vars

(* ------------------------- the callers of the API --------------------- *)
(* request.user of a DRF view for a caller: the user the bearer backend    *)
(* returns for the caller's access token; caller 0 sends no credentials    *)
Callers == UserIds \cup {0}
principal(caller) ==
    IF caller \in UserIds /\ authenticate(AccessToken(caller)).outcome = "user"
    THEN authenticate(AccessToken(caller)).user
    ELSE AnonymousUser(NoScopes)

(* mutant: the administrative views admit every caller *)
IsAdminUser_AllowAny(user) == TRUE

(* rest_framework.permissions.IsAdminUser: request.user and request.user.is_staff *)
IsAdminUser(user) == Truthy(user) /\ user.is_staff

(* RoleViewSet: create, destroy and assign-permission *)
ManageRoles(caller) ==
    /\ response.op = "none"
    /\ IsAdminUser(principal(caller))
    /\ \/ \E rn \in RoleNames : CreateRole(rn)
       \/ \E rn \in RoleNames : DeleteRole(rn)
       \/ AssignPermission("Default", <<"projects", "read">>)

(* UserViewSet: assign-role and partial_update; RestoreUserAPIView *)
ManageUsers(caller) ==
    /\ response.op = "none"
    /\ IsAdminUser(principal(caller))
    /\ \/ \E u \in UserIds, rn \in RoleNames : AssignRole(u, rn)
       \/ \E u \in UserIds, is_staff \in BOOLEAN, run_main \in BOOLEAN :
             partial_update(u, users[u].is_active, is_staff, run_main)
       \/ \E u \in UserIds, run_main \in BOOLEAN : Restore(u, run_main)

(* the answer of an administrative view to a caller its permission class   *)
(* refuses: 403 and nothing written                                        *)
AdminViews == {"roles", "users", "restore"}
Forbidden(caller, op) ==
    /\ response.op = "none"
    /\ ~IsAdminUser(principal(caller))
    /\ response' = [op |-> op, status |-> 403, role |-> "", body |-> <<caller>>]
    /\ UNCHANGED <<users, roles, resources, actions, permissions, role_perms, user_roles,
                   request, view, result, workers, duplicates, other>>

(* RegisterAPIView.create (AllowAny): UserRegisterSerializer accepts email, *)
(* names and password, and create_user defaults the flags to False         *)
Register(u, run_main) ==
    /\ response.op = "none"
    /\ CreateUser(u, FALSE, FALSE, run_main)

(* ProfileAPIView.patch (IsAuthenticated): UpdateMeSerializer writes the    *)
(* names of request.user and save() sends post_save                        *)
UpdateMe(caller, run_main) ==
    /\ response.op = "none"
    /\ IsAuthenticated(principal(caller))
    /\ CanWrite
    /\ request' = Written
    /\ LET st == post_save([roles |-> roles, user_roles |-> user_roles],
                           receivers(run_main), caller, users[caller].is_superuser, FALSE)
       IN /\ roles' = st.roles
          /\ user_roles' = st.user_roles
    /\ UNCHANGED <<workers, duplicates, response, other>>
    /\ UNCHANGED <<users, resources, actions, permissions, role_perms, view, result>>

(* SoftDeleteMeAPIView.post (IsAuthenticated) *)
SoftDeleteMe(caller, run_main, now) ==
    /\ response.op = "none"
    /\ IsAuthenticated(principal(caller))
    /\ SoftDelete(caller, run_main, now)

(* The REST API used by staff, non-staff and anonymous callers, one call   *)
(* answered at a time; the first staff user comes from manage.py           *)
(* createsuperuser.                                                        *)
NextApi ==
    \/ \E u \in UserIds, run_main \in BOOLEAN : CreateUser(u, TRUE, TRUE, run_main)
    \/ \E u \in UserIds, run_main \in BOOLEAN : Register(u, run_main)
    \/ \E caller \in UserIds, run_main \in BOOLEAN : UpdateMe(caller, run_main)
    \/ \E caller \in UserIds, run_main \in BOOLEAN, now \in Times :
          SoftDeleteMe(caller, run_main, now)
    \/ \E caller \in Callers : ManageRoles(caller)
    \/ \E caller \in Callers : ManageUsers(caller)
    \/ \E caller \in Callers, op \in AdminViews : Forbidden(caller, op)
    \/ Sent

SpecApi == Init /\ [][NextApi]_vars

(* ------------------------------- claims ------------------------------- *)
GateUser == request.drf_user
Checked == request.phase = "checked"
NonElevated(user) == ~user.is_staff /\ ~user.is_superuser
SepCount(s) == Cardinality({i \in 1..Len(s) : s[i] = Sep})
ResourcePart(s) == SubSeq(s, 1, FirstSep(s) - 1)
ActionPart(s) == SubSeq(s, FirstSep(s) + 1, Len(s))
Listed(sc, r, a) == sc.attached /\ r \in DOMAIN sc.map /\ a \in DOMAIN sc.map[r]
ProjectsRead == ScopeStr(<<"projects", Sep, "read">>)

(* C1: an authenticated principal with is_staff or is_superuser is allowed, *)
(* whatever the view's required_scope and whatever scopes are attached.    *)
C1_ElevatedAllowed ==
    (Checked /\ ~GateUser.is_none /\ GateUser.is_authenticated
       /\ (GateUser.is_staff \/ GateUser.is_superuser))
    => result = "allow"

C1_Witness ==
    /\ Checked
    /\ GateUser.is_authenticated /\ GateUser.is_staff /\ ~GateUser.is_superuser
    /\ ~GateUser.scopes.attached
    /\ view.required_scope.kind = "missing"
    /\ result = "allow"

(* C2: an absent or unauthenticated principal is denied, whatever flags and *)
(* scopes the object carries and whatever scope the view requires.         *)
C2_UnauthenticatedDenied ==
    (Checked /\ (GateUser.is_none \/ ~GateUser.is_authenticated))
    => result = "deny"

C2_Witness ==
    /\ Checked
    /\ ~GateUser.is_none /\ ~GateUser.is_authenticated
    /\ GateUser.is_staff /\ GateUser.is_superuser
    /\ Listed(GateUser.scopes, "projects", "read")
    /\ view.required_scope = ProjectsRead
    /\ result = "deny"

(* C3: for an authenticated non-elevated principal and a required_scope    *)
(* with exactly one separator, the gate allows iff the action is listed    *)
(* under the resource in the attached scopes.                              *)
C3_AllowIffListed ==
    (Checked /\ GateUser.is_authenticated /\ NonElevated(GateUser)
       /\ view.required_scope.kind = "str" /\ SepCount(view.required_scope.s) = 1)
    => (result = "allow"
          <=> \E r \in GateResources, a \in GateActions :
                 /\ ResourcePart(view.required_scope.s) = Str(r)
                 /\ ActionPart(view.required_scope.s) = Str(a)
                 /\ Listed(GateUser.scopes, r, a))

C3_Witness ==
    /\ Checked
    /\ GateUser.is_authenticated /\ NonElevated(GateUser)
    /\ GateUser.scopes = Attached([r \in {"invoices"} |-> SetToBag({"read"})])
    /\ view.required_scope = ScopeStr(<<"invoices", Sep, "read">>)
    /\ result = "allow"

(* C4: a view that declares no required_scope (no attribute, None or the   *)
(* empty string) denies every authenticated non-elevated principal.        *)
C4_UnconfiguredViewDenied ==
    (Checked /\ GateUser.is_authenticated /\ NonElevated(GateUser)
       /\ (view.required_scope.kind \in {"missing", "None"} \/ view.required_scope.s = <<>>))
    => result = "deny"

C4_Witness ==
    /\ Checked
    /\ GateUser.is_authenticated /\ NonElevated(GateUser)
    /\ Listed(GateUser.scopes, "projects", "read")
    /\ view.required_scope.kind = "missing"
    /\ result = "deny"

(* C5: a required_scope with zero separators, or with two or more, denies  *)
(* every authenticated non-elevated principal.                             *)
C5_MalformedScopeDenied ==
    (Checked /\ GateUser.is_authenticated /\ NonElevated(GateUser)
       /\ view.required_scope.kind = "str" /\ SepCount(view.required_scope.s) # 1)
    => result = "deny"

C5_Witness ==
    /\ Checked
    /\ GateUser.is_authenticated /\ NonElevated(GateUser)
    /\ Listed(GateUser.scopes, "projects", "read")
    /\ view.required_scope = ScopeStr(<<"projects", Sep, Sep>>)
    /\ result = "deny"

(* C6: a principal without any UserRole row and without is_staff and     *)
(* is_superuser is denied whatever scope the view requires, once its       *)
(* scopes were resolved and the gate has run.                              *)
NoRolesSeen ==
    IF request.kind = "session" THEN request.user_roles = {}
    ELSE RolesOf(request.uid) = {}

C6_NoRolesDenied ==
    (Checked /\ NonElevated(GateUser) /\ NoRolesSeen) => result = "deny"

C6_Witness ==
    /\ Checked
    /\ request.kind = "session" /\ request.uid = 1
    /\ NonElevated(GateUser)
    /\ request.user_roles = {}
    /\ <<2, "Default">> \in user_roles
    /\ <<"Default", <<"projects", "read">>>> \in role_perms
    /\ view.required_scope = ProjectsRead
    /\ result = "deny"

(* C7: at resolution time the scopes attached to an authenticated          *)
(* principal list action a under resource r iff a role assigned to the     *)
(* principal by a UserRole row is linked to the permission (r, a).         *)
Granted(u, r, a) ==
    \E rn \in RoleNames : <<u, rn>> \in user_roles /\ <<rn, <<r, a>>>> \in role_perms

C7_ResolvedScopesMatchStore ==
    (request.phase = "resolved" /\ request.writes = 0 /\ request.user.is_authenticated)
    => /\ request.user.scopes.attached
       /\ \A r \in DOMAIN request.user.scopes.map :
             \A a \in DOMAIN request.user.scopes.map[r] : Granted(request.uid, r, a)
       /\ \A p \in permissions :
             Granted(request.uid, p[1], p[2]) => Listed(request.user.scopes, p[1], p[2])

C7_Witness ==
    /\ request.phase = "resolved" /\ request.writes = 0
    /\ request.user.is_authenticated
    /\ RolesOf(request.uid) = {"Default", "Admin"}
    /\ {rp[2] : rp \in {x \in role_perms : x[1] = "Default"}} = {<<"projects", "read">>}
    /\ {rp[2] : rp \in {x \in role_perms : x[1] = "Admin"}} = {<<"projects", "create">>}
    /\ DOMAIN request.user.scopes.map = {"projects"}
    /\ DOMAIN request.user.scopes.map["projects"] = {"read", "create"}

(* C8: in the resolved scopes every action code occurs at most once under  *)
(* each resource, also when two roles of the principal grant the same      *)
(* permission.                                                             *)
C8_NoDuplicateActions ==
    request.user.scopes.attached
    => \A r \in DOMAIN request.user.scopes.map :
          \A a \in DOMAIN request.user.scopes.map[r] : request.user.scopes.map[r][a] = 1

(* C9: whenever the gate runs after the resolver in a request, a scopes    *)
(* map is attached to the principal the gate sees, and it is empty when    *)
(* that principal is anonymous.                                            *)
C9_ScopesPresentAtGate ==
    Checked
    => /\ GateUser.scopes.attached
       /\ ~GateUser.is_authenticated => GateUser.scopes.map = <<>>

(* C10: creating a principal yields exactly the UserRole row to "Default"  *)
(* when is_superuser is false and a UserRole row to "Admin" when it is     *)
(* true, and the role row exists afterwards.                               *)
C10_CreationAssignsBaselineRole ==
    [][\A u \in UserIds :
          (~users[u].exists /\ users'[u].exists)
          => IF users'[u].is_superuser
             THEN "Admin" \in roles' /\ <<u, "Admin">> \in user_roles'
             ELSE "Default" \in roles'
                  /\ {rn \in RoleNames : <<u, rn>> \in user_roles'} = {"Default"}]_vars

(* C11: a principal created as non-superuser and holding 'Default' that is  *)
(* saved with is_superuser true holds both 'Default' and 'Admin' after the *)
(* save (one UserRole row each: the rows are keyed by (user, role)).       *)
C11_PromotionAddsAdmin ==
    [][\A u \in UserIds :
          (/\ users[u].exists /\ ~users[u].is_superuser
           /\ <<u, "Default">> \in user_roles
           /\ users'[u].exists /\ users'[u].is_superuser)
          => {<<u, "Default">>, <<u, "Admin">>} \subseteq user_roles']_vars

(* C12: no save of a principal (creation, promotion, demotion, soft delete, *)
(* restore) removes a UserRole row: the roles of every principal after the *)
(* save include its roles before it.                                       *)
PrincipalSave ==
    \E u \in UserIds, run_main \in BOOLEAN :
       \/ CreateUser(u, users'[u].is_staff, users'[u].is_superuser, run_main)
       \/ SaveUser(u, users'[u].is_staff, users'[u].is_superuser, run_main)
       \/ \E now \in Times : SoftDelete(u, run_main, now)
       \/ Restore(u, run_main)

C12_HookNeverRevokes ==
    [][PrincipalSave => user_roles \subseteq user_roles']_vars

C12_Witness ==
    /\ users[1].exists /\ ~users[1].is_superuser /\ users[1].is_deleted
    /\ RolesOf(1) = {"Default", "Admin"}
    /\ users[2].exists /\ ~users[2].is_superuser /\ RolesOf(2) = {"Admin"}

(* C13: assign_permission(role, permission) on a pair that is already      *)
(* linked succeeds and leaves every table as it was, and after any call    *)
(* the pair is linked (one RolePermission row: the rows are keyed by the   *)
(* pair).                                                                  *)
StoreTables == <<users, roles, resources, actions, permissions, role_perms, user_roles>>

C13_AssignPermissionIdempotent ==
    /\ [](\A rn \in RoleNames, p \in AssignablePerms :
             <<rn, p>> \in role_perms => ENABLED AssignPermission(rn, p))
    /\ [][\A rn \in RoleNames, p \in AssignablePerms :
             AssignPermission(rn, p)
             => /\ <<rn, p>> \in role_perms'
                /\ <<rn, p>> \in role_perms => UNCHANGED StoreTables]_vars

C13_Witness ==
    /\ <<"Default", <<"projects", "read">>>> \in role_perms
    /\ <<"Default", <<"projects", "create">>>> \notin role_perms
    /\ <<"Admin", <<"projects", "read">>>> \in role_perms

(* C14: after any run of the seed the four actions and the baseline        *)
(* resources exist, there is a Permission for every (resource, action)     *)
(* pair present, and a further run would change nothing.                   *)
Catalogue == [actions |-> actions, resources |-> resources,
              permissions |-> permissions, roles |-> roles,
              role_perms |-> role_perms]

C14_SeedIdempotent ==
    [][Seed => /\ {"create", "read", "update", "delete"} \subseteq actions'
               /\ {"projects", "invoices", "users"} \subseteq resources'
               /\ permissions' = resources' \X actions'
               /\ create_initial_rbac_data(Catalogue') = Catalogue'
               /\ UNCHANGED <<users, user_roles>>]_vars

C14_Witness ==
    /\ "read" \in actions /\ "projects" \in resources
    /\ permissions = resources \X actions
    /\ <<"Admin", <<"invoices", "update">>>> \in role_perms
    /\ <<"Admin", <<"projects", "read">>>> \notin role_perms
    /\ <<"Admin", <<"invoices", "read">>>> \notin role_perms

(* C15: in every state reached by interleaving the statements of           *)
(* concurrent get_or_create calls there is at most one Permission row per  *)
(* (resource, action), one RolePermission row per (role, permission) and   *)
(* one UserRole row per (user, role).                                      *)
RowCount(t, key) ==
    (IF key \in Table(t) THEN 1 ELSE 0) + (IF key \in duplicates[t] THEN 1 ELSE 0)

ResolvedCodesExist(u) ==
    LET sc == resolve_scopes(u)
    IN \A r \in DOMAIN sc : r \in resources /\ DOMAIN sc[r] \subseteq actions

C16_CascadeKeepsReferences ==
    /\ \A p \in permissions : p[1] \in resources /\ p[2] \in actions
    /\ \A rp \in role_perms : rp[2] \in permissions
    /\ \A u \in UserIds : ResolvedCodesExist(u)

C16_Witness ==
    /\ "projects" \notin resources /\ "read" \notin actions
    /\ <<"Admin", <<"invoices", "update">>>> \in role_perms
    /\ <<1, "Admin">> \in user_roles
    /\ DOMAIN resolve_scopes(1) = {"invoices", "users"}
    /\ DOMAIN resolve_scopes(1)["invoices"] = {"create", "update", "delete"}

(* C17: the scopes a request resolves for an authenticated principal list  *)
(* (r, a) exactly when the store grants it at that moment, whatever the    *)
(* principal's request before this one resolved and whatever was added or  *)
(* removed between the two.                                                *)
GrantedIn(ur, rp, u, r, a) ==
    \E rn \in RoleNames : <<u, rn>> \in ur /\ <<rn, <<r, a>>>> \in rp

C17_ScopesRecomputedEachRequest ==
    [][(request.phase = "idle" /\ request'.phase = "resolved"
          /\ request'.user.is_authenticated)
       => \A r \in resources_to_create, a \in actions_to_create :
             Listed(request'.user.scopes, r, a)
             <=> GrantedIn(user_roles', role_perms', request'.uid, r, a)]_vars

C17_Witness ==
    /\ request.phase = "resolved" /\ request.writes = 0
    /\ request.user.is_authenticated
    /\ request.previous.uid = request.uid
    /\ request.previous.scopes.attached
    /\ Listed(request.previous.scopes, "projects", "create")
    /\ ~Listed(request.previous.scopes, "projects", "read")
    /\ Listed(request.user.scopes, "projects", "read")
    /\ ~Listed(request.user.scopes, "projects", "create")

(* C18: on every path that registers a principal, in a process where the   *)
(* hook is connected, the principal row and its baseline UserRole row are  *)
(* committed together or not at all, also when the path fails between the  *)
(* save and the assignment.                                                *)
Baseline(row) == IF row.is_superuser THEN "Admin" ELSE "Default"

C18_SaveAndAssignmentAtomic ==
    [][\A u \in UserIds, path \in RegisterPaths, fails \in BOOLEAN :
          RegisterUser(u, path, TRUE, fails)
          => (users'[u].exists <=> <<u, Baseline(users'[u])>> \in user_roles')]_vars

(* C19: has_permission returns allow or deny and raises nothing, for every *)
(* principal (absent, anonymous, authenticated, with or without a scopes   *)
(* attribute) and every required_scope (missing, None, any string).        *)
C19_GateTotal == Checked => result \in {"allow", "deny"}

C19_Witness ==
    /\ Checked
    /\ GateUser.is_authenticated /\ NonElevated(GateUser)
    /\ ~GateUser.scopes.attached
    /\ view.required_scope = ScopeStr(<<Sep, "read", Sep>>)
    /\ result = "deny"

(* C20: a check changes neither the principal, nor its scopes, nor the     *)
(* store, and the result of every check in a request, the first or a later *)
(* one for another required_scope, is the result of has_permission on the  *)
(* principal and that view alone.                                          *)
C20_GateHasNoSideEffects ==
    [][request'.phase = "checked"
       => /\ request'.drf_user = request.drf_user
          /\ UNCHANGED StoreTables
          /\ result' = "allow" <=> has_permission(request.drf_user, view')
          /\ result' = "deny" <=> ~has_permission(request.drf_user, view')]_vars

C20_Witness ==
    /\ Checked
    /\ GateUser.is_authenticated /\ NonElevated(GateUser)
    /\ Listed(GateUser.scopes, "projects", "read")
    /\ ~Listed(GateUser.scopes, "projects", "create")
    /\ view.required_scope = ScopeStr(<<"projects", Sep, "create">>)
    /\ result = "deny"

(* C21: the permissions in a role response (role retrieval, assign-        *)
(* permission) are exactly the permissions linked to the role when the     *)
(* response is made, each once, sorted by resource code and then by action *)
(* code.                                                                   *)
CodeOrder == <<"create", "delete", "invoices", "projects", "read", "update", "users">>
Rank(code) == CHOOSE i \in 1..Len(CodeOrder) : CodeOrder[i] = code
Before(p, q) == Rank(p[1]) < Rank(q[1]) \/ (p[1] = q[1] /\ Rank(p[2]) < Rank(q[2]))
Sorted(body) == \A i, j \in 1..Len(body) : i < j => Before(body[i], body[j])
Responded(op) == response'.op = op /\ response.op = "none"

C21_RolePermissionsListedInOrder ==
    [][(Responded("retrieve") \/ Responded("assign_permission"))
       => /\ {response'.body[i] : i \in 1..Len(response'.body)}
               = {x[2] : x \in prefetch_related(response'.role, role_perms')}
          /\ Sorted(response'.body)]_vars

(* C29: every user row has is_deleted true exactly when deleted_at is not   *)
(* null, and a row with is_deleted true has is_active false.               *)
C29_DeletionFieldsAgree ==
    \A u \in UserIds :
       users[u].exists
       => /\ users[u].is_deleted <=> users[u].deleted_at # 0
          /\ users[u].is_deleted => ~users[u].is_active

(* C22: User.soft_delete leaves the row with is_deleted true, is_active     *)
(* false and a deleted_at that is not null; User.restore leaves it with    *)
(* is_deleted false, is_active true and deleted_at null; restore applied   *)
(* to the soft-deleted row gives back the row as it was before the         *)
(* deletion, and no other field of the row changes in either operation.    *)
OtherFields(row) == [exists |-> row.exists, is_staff |-> row.is_staff,
                     is_superuser |-> row.is_superuser]

C22_SoftDeleteRestoreRoundTrip ==
    [][\A u \in UserIds, run_main \in BOOLEAN :
          /\ (\E now \in Times : SoftDelete(u, run_main, now))
             => /\ users'[u].is_deleted /\ ~users'[u].is_active
                /\ users'[u].deleted_at # 0
                /\ OtherFields(users'[u]) = OtherFields(users[u])
                /\ restore(users'[u]) = users[u]
          /\ Restore(u, run_main)
             => /\ ~users'[u].is_deleted /\ users'[u].is_active
                /\ users'[u].deleted_at = 0
                /\ OtherFields(users'[u]) = OtherFields(users[u])]_vars

(* C24: every step that creates or updates a principal row also runs the   *)
(* auto-assignment rule before it ends: a created principal holds its      *)
(* baseline role, and an updated principal that is a superuser holds       *)
(* 'Admin', whatever the process and the path that wrote the row.          *)
C24_RuleRunsOnEverySave ==
    [][\A u \in UserIds :
          (users'[u] # users[u] /\ users'[u].exists)
          => IF ~users[u].exists
             THEN <<u, Baseline(users'[u])>> \in user_roles'
             ELSE users'[u].is_superuser => <<u, "Admin">> \in user_roles']_vars

(* C26: after a run of create_initial_rbac_data, whatever the store it     *)
(* started from, the 'Admin' role is linked to every Permission row.       *)
C26_SeedLinksAdminToAll ==
    [][Seed => \A p \in permissions' : <<"Admin", p>> \in role_perms']_vars

(* C23: whenever the gate has evaluated an authenticated, non-elevated      *)
(* principal P, the resolver ran for P earlier in the same request and the *)
(* scopes on the principal the gate consulted are the ones it resolved.    *)
C23_ResolvedBeforeGate ==
    (Checked /\ GateUser.is_authenticated /\ NonElevated(GateUser))
    => /\ request.user.is_authenticated
       /\ request.user.id = GateUser.id
       /\ request.user.scopes.attached
       /\ GateUser.scopes = request.user.scopes

(* C27: a bearer request is authenticated only when its token decodes      *)
(* validly, has type 'access' and names a user row that exists, is active  *)
(* and is not deleted when the request is made; so a token naming a user   *)
(* that is soft-deleted at that time is refused, however valid it is.      *)
Token == response'.body[1]

C27_BearerOnlyForLiveUsers ==
    [][Responded("authenticate")
       => /\ response'.status = 200
             => /\ Token.valid
                /\ Token.type = "access"
                /\ Token.sub \in UserIds
                /\ users[Token.sub].exists
                /\ users[Token.sub].is_active
                /\ ~users[Token.sub].is_deleted
          /\ (Token.sub \in UserIds /\ users[Token.sub].is_deleted)
             => response'.status = 401]_vars

C27_Witness ==
    /\ response.op = "authenticate"
    /\ response.status = 401
    /\ response.body[1] \in {AccessToken(u) : u \in UserIds}
    /\ users[response.body[1].sub].is_deleted
    /\ users[response.body[1].sub].deleted_at # 0

(* C25: when a get_or_create of the hook fails during a save, the save     *)
(* does not return normally: the caller gets the exception, and where the  *)
(* save runs inside a transaction nothing of it stays written; a save that *)
(* returns normally has made the assignment.                               *)
C25_HookFailureRaised ==
    [][Responded("save")
       => LET u == response'.body[1]
              path == response'.body[2]
          IN /\ response'.status = 201
                => users'[u].exists /\ <<u, response'.role>> \in user_roles'
             /\ (response'.status = 500 /\ atomic(path))
                => UNCHANGED <<users, roles, user_roles>>
             /\ <<u, response'.role>> \notin user_roles' => response'.status = 500]_vars

C25_Witness ==
    /\ response.op = "save"
    /\ response.status = 500
    /\ atomic(response.body[2])
    /\ ~users[response.body[1]].exists

(* C28: with two requests interleaved, the decision of the gate in a        *)
(* request of P is the one its rule gives for P's flags and the scopes     *)
(* resolved for P in that request (none on the bearer path), whatever the  *)
(* other request resolved.                                                 *)
OwnPrincipal ==
    [is_none |-> FALSE, id |-> request.uid, is_authenticated |-> TRUE,
     is_staff |-> GateUser.is_staff, is_superuser |-> GateUser.is_superuser,
     scopes |-> IF request.kind = "session" THEN request.user.scopes ELSE NoScopes]

C28_ScopesNotShared ==
    Checked
    => /\ GateUser.id = request.uid
       /\ result = gate_result(OwnPrincipal, view)

C28_Witness ==
    /\ Checked
    /\ request.kind = "session"
    /\ NonElevated(GateUser)
    /\ view.required_scope = ProjectsRead
    /\ result = "deny"
    /\ other.phase \in {"resolved", "checked"}
    /\ other.kind = "session"
    /\ other.uid # request.uid
    /\ Listed(other.user.scopes, "projects", "read")

(* C30: an API operation issued by a caller whose is_staff is false (or by *)
(* an anonymous caller) changes no RolePermission row, no user's is_staff  *)
(* or is_superuser flag, no other user's row and no other user's UserRole  *)
(* rows; the only role change it can cause is the 'Default' assignment at  *)
(* the caller's own registration (the UserRole row, and the 'Default' role *)
(* row when get_or_create has to make it).                                 *)
ApiStep(c) ==
    \/ /\ c \in UserIds
       /\ \/ \E run_main \in BOOLEAN : Register(c, run_main)
          \/ \E run_main \in BOOLEAN : UpdateMe(c, run_main)
          \/ \E run_main \in BOOLEAN, now \in Times : SoftDeleteMe(c, run_main, now)
    \/ ManageRoles(c)
    \/ ManageUsers(c)
    \/ \E op \in AdminViews : Forbidden(c, op)

NonStaff(c) == c = 0 \/ ~users[c].is_staff

OthersUntouched(c) ==
    /\ \A u \in UserIds :
          /\ users'[u].is_staff = users[u].is_staff
          /\ users'[u].is_superuser = users[u].is_superuser
    /\ \A u \in UserIds \ {c} : users'[u] = users[u]
    /\ \A ur \in (user_roles \ user_roles') \cup (user_roles' \ user_roles) : ur[1] = c

C30_NonStaffChangesNoRoles ==
    [][\A c \in Callers :
          (NonStaff(c) /\ ApiStep(c))
          => /\ roles' # roles
                => ~users[c].exists /\ roles' = roles \cup {"Default"}
             /\ role_perms' = role_perms
             /\ OthersUntouched(c)
             /\ user_roles' # user_roles
                => ~users[c].exists /\ user_roles' = user_roles \cup {<<c, "Default">>}]_vars

(* C30, amended: the role changes such a caller can cause are those the    *)
(* hook makes on a save of the caller's own row: the baseline role at its  *)
(* registration, 'Admin' when the caller is a superuser, and the role row  *)
(* that get_or_create makes when that role is missing.                     *)
HookRoles(c) ==
    IF c = 0 THEN {}
    ELSE IF ~users[c].exists THEN {"Default"}
    ELSE IF users[c].is_superuser THEN {"Admin"} ELSE {}

C30_NonStaffChangesOwnHookRolesOnly ==
    [][\A c \in Callers :
          (NonStaff(c) /\ ApiStep(c))
          => /\ roles \subseteq roles' /\ roles' \subseteq roles \cup HookRoles(c)
             /\ role_perms' = role_perms
             /\ OthersUntouched(c)
             /\ user_roles \subseteq user_roles'
             /\ user_roles' \subseteq user_roles \cup {<<c, rn>> : rn \in HookRoles(c)}]_vars

C30_Witness ==
    /\ response.op = "restore"
    /\ response.status = 403
    /\ response.body[1] \in UserIds
    /\ users[response.body[1]].exists
    /\ ~users[response.body[1]].is_staff
    /\ \E u \in UserIds \ {response.body[1]} : users[u].is_deleted

====
